---- MODULE Spec2Model ----
(***************************************************************************)
(* A model of the OpenTelemetry adapter layer for NestJS:                  *)
(*   - TracingService (startSpan, withSpan, withSpanSync),                 *)
(*   - MetricsService (the name -> instrument caches),                     *)
(*   - TracingInterceptor and MetricsInterceptor (the rxjs pipelines).     *)
(* The SDK's spans and instruments are modelled as records that log every  *)
(* method invoked on them.                                                 *)
(***************************************************************************)
EXTENDS Integers, Sequences, FiniteSets, TLC

(***************************************************************************)
(* Bounds of the model.                                                    *)
(***************************************************************************)
\* withSpan / withSpanSync calls in one behaviour
MaxWithSpanCalls == 2
\* instruments the meter hands out in one behaviour
MaxInstruments == 11
\* intercepted calls in one behaviour
MaxInterceptCalls == 1
\* values a handler's stream emits before it ends
MaxEmit == 1
MaxConcurrentCalls == 2
MaxRecords == 1
MaxLoggerCalls == 1
MaxEnvLen == 2
MaxDestroyCalls == 2
MaxLogRecords == 2

(***************************************************************************)
(* Values, errors and messages.  An error object has an identity and a     *)
(* message; a message is a sequence of words, so that                      *)
(* String.prototype.includes is a search for a contiguous sub-sequence.    *)
(***************************************************************************)
Values == {"done", "other"}

NoError == [id |-> "", msg |-> <<>>, stack |-> FALSE]

\* two distinct error objects that carry the same message
BusinessErrors ==
  { [id |-> "E1", msg |-> <<"boom">>, stack |-> TRUE],
    [id |-> "E2", msg |-> <<"boom">>, stack |-> FALSE] }

Includes(msg, sub) ==
  \E i \in 0..(Len(msg) - Len(sub)) : SubSeq(msg, i + 1, i + Len(sub)) = sub

(***************************************************************************)
(* Spans.  A span records every method invoked on it, by whom.             *)
(***************************************************************************)
NoSpan == 0
NoFault == [op |-> "", err |-> NoError]

VARIABLES
  tracingEnabled,   \* TracingService.tracer is set (config.tracing.enabled !== false)
  tracerProvider,   \* a tracer provider is registered with the OpenTelemetry API
  spans,            \* every span object created so far
  ambient,          \* the span active outside every call (NoSpan: none)
  ws,               \* the withSpan / withSpanSync calls
  syncStack,        \* the withSpanSync calls whose fn is on the JS stack
  metrics,          \* the MetricsService object and the instruments of its meter
  lastCreate,       \* what the latest createCounter/Histogram/Gauge call returned
  lastRecord,       \* what the latest incrementCounter/recordHistogram/setGauge call did
  ic,               \* the calls that go through an interceptor
  decorated,        \* the metadata the latest preset decorator stored
  logger,           \* the error() calls made on the logger and the records winston got
  envConfig,        \* the environment and the configuration made from it
  otel              \* the OpenTelemetryService object, its calls and what it logged

tracingVars == <<tracingEnabled, tracerProvider, spans, ambient, ws, syncStack>>
metricsVars == <<metrics, lastCreate, lastRecord>>
auxVars == <<decorated, logger, envConfig, otel>>
vars == <<tracingEnabled, tracerProvider, spans, ambient, ws, syncStack, metrics, lastCreate, lastRecord, ic, decorated, logger, envConfig, otel>>

WCalls == 1..MaxWithSpanCalls
ICalls == 1..MaxInterceptCalls

NewSpan(owner, recording, fault) ==
  [owner |-> owner, recording |-> recording, status |-> "UNSET",
   statusMsg |-> <<>>, ended |-> FALSE, log |-> <<>>, fault |-> fault]

LogEntry(op, by, code, err) ==
  [op |-> op, by |-> by, code |-> code, err |-> err.id, msg |-> err.msg]

\* span.<op>(...) throws
SpanThrows(sp, id, op) == sp[id].fault.op = op

\* span.setStatus({code, message}) invoked by `by`
SpanSetStatus(sp, id, by, code, err) ==
  [sp EXCEPT ![id] =
     [@ EXCEPT !.log = Append(@, LogEntry("setStatus", by, code, err)),
               !.status = IF sp[id].recording /\ ~sp[id].ended /\ ~SpanThrows(sp, id, "setStatus")
                          THEN code ELSE @,
               !.statusMsg = IF sp[id].recording /\ ~sp[id].ended /\ ~SpanThrows(sp, id, "setStatus")
                             THEN err.msg ELSE @]]

\* span.setAttribute(key, value) invoked by `by`
SpanSetAttribute(sp, id, by, key) ==
  [sp EXCEPT ![id].log = Append(@, LogEntry("setAttribute", by, key, NoError))]

\* span.recordException(error) invoked by `by`
SpanRecordException(sp, id, by, err) ==
  [sp EXCEPT ![id].log = Append(@, LogEntry("recordException", by, "", err))]

\* span.end() invoked by `by`
SpanEnd(sp, id, by) ==
  [sp EXCEPT ![id] =
     [@ EXCEPT !.log = Append(@, LogEntry("end", by, "", NoError)),
               !.ended = IF SpanThrows(sp, id, "end") THEN @ ELSE TRUE]]

(***************************************************************************)
(* The preset decorators.  An options object is a function from the keys   *)
(* it has to their values; { ...a, ...b } has the keys of both, b's values *)
(* where both have the key.                                                *)
(***************************************************************************)
Spread(a, b) == b @@ a

EmptyObject == [k \in {} |-> ""]

\* ...(x && { key: x }): nothing when x is undefined or ''
SpreadIf(x, key) == IF x = "" THEN EmptyObject ELSE (key :> x)

\* ...options.attributes: nothing when options has no attributes
AttributesOf(options) ==
  IF "attributes" \in DOMAIN options THEN options["attributes"] ELSE EmptyObject

\* options.counter || dflt
OrDefault(options, key, dflt) ==
  IF key \in DOMAIN options /\ options[key] # "" THEN options[key] ELSE dflt

\* Trace(options) / Metrics(options): SetMetadata(KEY, { ...options, originalMethodName })
Trace(options) == Spread(options, "originalMethodName" :> "handler")
Metrics(options) == Spread(options, "originalMethodName" :> "handler")

\* the attributes a preset supplies itself
PresetAttributes(preset, extra) ==
  CASE preset \in {"TraceHttp", "MetricsHttp"} -> ("operation.type" :> "http")
    [] preset \in {"TraceDb", "MetricsDb"} ->
         Spread(Spread("operation.type" :> "database", SpreadIf(extra.operation, "db.operation")),
                SpreadIf(extra.table, "db.name"))
    [] preset = "TraceExternal" ->
         Spread("operation.type" :> "external", SpreadIf(extra.service, "external.service"))
    [] preset = "TraceBusiness" -> ("operation.type" :> "business")
    [] preset = "MetricsBusiness" ->
         Spread("operation.type" :> "business", SpreadIf(extra.operation, "business.operation"))

PresetKind(preset) ==
  CASE preset = "TraceHttp" -> "SERVER"
    [] preset \in {"TraceDb", "TraceExternal"} -> "CLIENT"
    [] preset = "TraceBusiness" -> "INTERNAL"

PresetCounter(preset) ==
  CASE preset = "MetricsHttp" -> "http_requests_total"
    [] preset = "MetricsDb" -> "db_operations_total"
    [] preset = "MetricsBusiness" -> "business_operations_total"

PresetHistogram(preset) ==
  CASE preset = "MetricsHttp" -> "http_request_duration_seconds"
    [] preset = "MetricsDb" -> "db_operation_duration_seconds"
    [] preset = "MetricsBusiness" -> "business_operation_duration_seconds"

\* TraceHttp / TraceDb / TraceExternal / TraceBusiness:
\* Trace({ ...options, kind, attributes: { <preset attributes>, ...options.attributes } })
TracePreset(preset, options, extra) ==
  Trace(Spread(Spread(options, "kind" :> PresetKind(preset)),
               "attributes" :> Spread(PresetAttributes(preset, extra), AttributesOf(options))))

\* MetricsHttp / MetricsDb / MetricsBusiness:
\* Metrics({ counter, histogram, attributes: { <preset attributes>,
\*           ...options.attributes }, recordStatus: true, ...options })
MetricsPreset(preset, options, extra) ==
  Metrics(Spread(("counter" :> OrDefault(options, "counter", PresetCounter(preset)))
                 @@ ("histogram" :> OrDefault(options, "histogram", PresetHistogram(preset)))
                 @@ ("attributes" :> Spread(PresetAttributes(preset, extra), AttributesOf(options)))
                 @@ ("recordStatus" :> TRUE),
                 options))

TracePresets == {"TraceHttp", "TraceDb", "TraceExternal", "TraceBusiness"}
MetricsPresets == {"MetricsHttp", "MetricsDb", "MetricsBusiness"}

NoExtra == [operation |-> "", table |-> "", service |-> ""]

\* the preset's own options, which it takes out of the options object
Extras(preset) ==
  CASE preset \in {"TraceDb", "MetricsDb"} ->
         {[NoExtra EXCEPT !.operation = o, !.table = t] : o \in {"", "SELECT"}, t \in {"", "users"}}
    [] preset = "TraceExternal" -> {[NoExtra EXCEPT !.service = v] : v \in {"", "billing"}}
    [] preset = "MetricsBusiness" -> {[NoExtra EXCEPT !.operation = o] : o \in {"", "checkout"}}
    [] OTHER -> {NoExtra}

\* attributes a caller passes
CallerAttributes ==
  { EmptyObject,
    "custom" :> "value",
    "operation.type" :> "mine",
    ("custom" :> "value") @@ ("operation.type" :> "mine"),
    "db.operation" :> "UPSERT" }

\* options a caller passes: with or without attributes, name and counter
CallerOptions ==
  { Spread(Spread(a, n), c) :
      a \in {EmptyObject} \cup {"attributes" :> x : x \in CallerAttributes},
      n \in {EmptyObject, "name" :> "op"},
      c \in {EmptyObject, "recordArgs" :> TRUE} }

NoDecoration == [preset |-> "", options |-> EmptyObject, extra |-> NoExtra,
                 metadata |-> EmptyObject]

(***************************************************************************)
(* createOpenTelemetryConfigFromEnv: the two numeric variables.  A string  *)
(* is a sequence of characters; a number is NaN or num/den.                *)
(***************************************************************************)
Digits == {"0", "5"}
EnvChars == Digits \cup {".", "a", " "}

RECURSIVE EnvStrings(_)
EnvStrings(n) ==
  IF n = 0 THEN {<<>>}
  ELSE LET shorter == EnvStrings(n - 1)
       IN  shorter \cup {Append(s, ch) : s \in shorter, ch \in EnvChars}

\* process.env.X: not set, or a string
Unset == [set |-> FALSE, val |-> <<>>]
EnvValues == {Unset} \cup {[set |-> TRUE, val |-> s] : s \in EnvStrings(MaxEnvLen)}

NaN == [nan |-> TRUE, num |-> 0, den |-> 1]
Number(num, den) == [nan |-> FALSE, num |-> num, den |-> den]

DigitValue(ch) == IF ch = "5" THEN 5 ELSE 0

RECURSIVE SkipSpaces(_)
SkipSpaces(s) == IF s # <<>> /\ s[1] = " " THEN SkipSpaces(Tail(s)) ELSE s

\* the longest prefix of s made of digits
RECURSIVE DigitsPrefix(_)
DigitsPrefix(s) ==
  IF s # <<>> /\ s[1] \in Digits THEN <<s[1]>> \o DigitsPrefix(Tail(s)) ELSE <<>>

RECURSIVE ToNat(_)
ToNat(d) == IF d = <<>> THEN 0 ELSE 10 * ToNat(SubSeq(d, 1, Len(d) - 1)) + DigitValue(d[Len(d)])

RECURSIVE Pow10(_)
Pow10(n) == IF n = 0 THEN 1 ELSE 10 * Pow10(n - 1)

\* parseInt(s): leading white space is skipped, the longest run of digits is
\* read and what follows is ignored; NaN when there is no digit to read
ParseInt(s) ==
  LET d == DigitsPrefix(SkipSpaces(s))
  IN  IF d = <<>> THEN NaN ELSE Number(ToNat(d), 1)

\* parseFloat(s): as parseInt, with an optional '.' and fraction digits
ParseFloat(s) ==
  LET t == SkipSpaces(s)
      i == DigitsPrefix(t)
      rest == SubSeq(t, Len(i) + 1, Len(t))
      f == IF rest # <<>> /\ rest[1] = "." THEN DigitsPrefix(Tail(rest)) ELSE <<>>
  IN  IF i = <<>> /\ f = <<>> THEN NaN ELSE Number(ToNat(i \o f), Pow10(Len(f)))

DefaultInterval == 30000
DefaultSampleRate == Number(1, 1)

\* process.env.X ? parse(process.env.X) : default   ('' is falsy)
FromEnv(v, parsed, dflt) == IF v.set /\ v.val # <<>> THEN parsed ELSE dflt

\* tracing.sampleRate and metrics.interval of the configuration returned
CreateOpenTelemetryConfigFromEnv(rate, interval) ==
  [sampleRate |-> FromEnv(rate, ParseFloat(rate.val), DefaultSampleRate),
   interval |-> FromEnv(interval, ParseInt(interval.val), Number(DefaultInterval, 1))]

NoEnvConfig == [loaded |-> FALSE, rate |-> Unset, interval |-> Unset,
                config |-> [sampleRate |-> DefaultSampleRate,
                            interval |-> Number(DefaultInterval, 1)]]

(***************************************************************************)
(* OpenTelemetryService: the bootstrap service.                            *)
(***************************************************************************)
\* sdk: this.sdk is unset ("none"), created, or created and started;
\* prometheus: this.prometheusExporter is set; init: where onModuleInit is;
\* destroys: the onModuleDestroy calls; log: what the service logged
\* sampler: the TraceIdRatioBasedSampler made, and the ratio it was given
NoSampler == [made |-> FALSE, rate |-> NaN]

NewOpenTelemetryService ==
  [sdk |-> "none", prometheus |-> FALSE, init |-> "idle", destroys |-> <<>>,
   sdkShutdowns |-> 0, prometheusShutdowns |-> 0, log |-> <<>>, sampler |-> NoSampler]

\* this.config.tracing?.sampleRate: the value of the configuration made from
\* the environment, or undefined for a configuration that names no rate
ConfigSampleRate(ec) ==
  IF ec.loaded THEN [set |-> TRUE, val |-> ec.config.sampleRate]
  ELSE [set |-> FALSE, val |-> NaN]

\* createSampler: new TraceIdRatioBasedSampler(sampleRate || 1.0);
\* undefined, NaN and 0 are falsy
CreateSampler(rate) ==
  [made |-> TRUE,
   rate |-> IF ~rate.set \/ rate.val.nan \/ rate.val.num = 0
            THEN DefaultSampleRate ELSE rate.val]

\* the components that hold the logger: it is a provider of default scope, so
\* the module and everything that injects it share one instance
Components == {"OrdersService", "UsersController", "OpenTelemetryService"}

\* calls: the contexts error() was called in; records: what winston was given;
\* contextName: the private field ('Application' until setContext is called);
\* lastSet: what each component passed to its latest setContext call
NoLogger == [calls |-> <<>>, records |-> <<>>, contextName |-> "Application",
             lastSet |-> [comp \in Components |-> ""]]

\* setContext(context): this.contextName = context
SetContext(lg, comp, context) ==
  [lg EXCEPT !.contextName = context, !.lastSet[comp] = context]

InitAux ==
  /\ decorated = NoDecoration
  /\ logger = NoLogger
  /\ envConfig = NoEnvConfig
  /\ otel = NewOpenTelemetryService

\* a method is decorated with a preset
Decorate(preset, options, extra) ==
  /\ decorated' = [preset |-> preset, options |-> options, extra |-> extra,
                   metadata |-> IF preset \in TracePresets
                                THEN TracePreset(preset, options, extra)
                                ELSE MetricsPreset(preset, options, extra)]
  /\ UNCHANGED <<tracingVars, metricsVars, ic, logger, envConfig, otel>>

(***************************************************************************)
(* TracingService.startSpan: without a tracer, the active span if there is *)
(* one, else a span of trace.getTracer('noop'); with a tracer, a new span  *)
(* of trace.getTracer(serviceName).  trace.getTracer gives a tracer of the *)
(* globally registered tracer provider under that name; its spans record   *)
(* if a provider is registered and are no-op spans if none is.             *)
(***************************************************************************)
StartSpan(sp, enabled, provider, active, owner, fault) ==
  IF ~enabled
  THEN IF active # NoSpan
       THEN [spans |-> sp, id |-> active]
       ELSE [spans |-> Append(sp, NewSpan(owner, provider, fault)), id |-> Len(sp) + 1]
  ELSE [spans |-> Append(sp, NewSpan(owner, provider, fault)), id |-> Len(sp) + 1]

(***************************************************************************)
(* TracingService.withSpan / withSpanSync.                                 *)
(***************************************************************************)
NoOutcome == [kind |-> "none", val |-> "", err |-> NoError]

\* fn: what fn produced; outcome: what the caller of withSpan receives
IdleWs == [pc |-> "idle", sync |-> FALSE, span |-> NoSpan, parent |-> 0,
           fn |-> NoOutcome, outcome |-> NoOutcome]

W(c) == <<"w", c>>

(***************************************************************************)
(* An intercepted call: the decorator's metadata, the stream of the        *)
(* handler (hin), what the subscriber of the intercepted stream receives   *)
(* (out), and errors thrown outside the stream (leaked).                   *)
(***************************************************************************)
NoMeta ==
  [present |-> FALSE, kind |-> "", recordResult |-> FALSE,
   counter |-> "", histogram |-> "", recordStatus |-> FALSE]

IdleIc ==
  [pc |-> "idle", by |-> "", reflector |-> TRUE, meta |-> NoMeta,
   response |-> FALSE, passThrough |-> FALSE, span |-> NoSpan,
   fault |-> NoFault, hin |-> <<>>, out |-> <<>>, leaked |-> <<>>]

I(c) == <<"i", c>>

\* trace.getActiveSpan() where call c's code runs
ActiveFor(parent) == IF parent = 0 THEN ambient ELSE ws[parent].span

\* the calls inside whose fn a new call can be made now
OpenParents ==
  IF syncStack # <<>>
  THEN {syncStack[Len(syncStack)]}
  ELSE {0} \cup {p \in WCalls : ws[p].pc = "fn"}

\* const span = this.startSpan(name, options); context.with(..., fn)
WithSpanStart(c, sync, parent) ==
  /\ ws[c].pc = "idle"
  /\ \A d \in WCalls : d < c => ws[d].pc # "idle"
  /\ parent \in OpenParents
  /\ LET r == StartSpan(spans, tracingEnabled, tracerProvider, ActiveFor(parent), W(c), NoFault)
     IN /\ spans' = r.spans
        /\ ws' = [ws EXCEPT ![c] = [pc |-> "fn", sync |-> sync, span |-> r.id,
                                     parent |-> parent, fn |-> NoOutcome,
                                     outcome |-> NoOutcome]]
  /\ syncStack' = IF sync THEN Append(syncStack, c) ELSE syncStack
  /\ UNCHANGED <<tracingEnabled, tracerProvider, ambient, metricsVars, ic, auxVars>>

\* the step of call c can run now: a synchronous fn runs to its end before
\* anything else, an asynchronous continuation only with an empty JS stack
CanStep(c) ==
  /\ ws[c].pc = "fn"
  /\ IF ws[c].sync THEN syncStack # <<>> /\ syncStack[Len(syncStack)] = c
                   ELSE syncStack = <<>>

PopSync(c) == IF ws[c].sync THEN SubSeq(syncStack, 1, Len(syncStack) - 1) ELSE syncStack

\* a variant that ends the span first and sets the status afterwards
WithSpanSuccess_EndFirst(sp, id, by) ==
  SpanSetStatus(SpanEnd(sp, id, by), id, by, "OK", NoError)

\* try { result = fn(span); span.setStatus(OK); return result } finally { span.end() }
WithSpanSuccess(sp, id, by) ==
  SpanEnd(SpanSetStatus(sp, id, by, "OK", NoError), id, by)

\* a variant whose span.end() sits at the end of the try block, not in finally
WithSpanFailure_EndInTry(sp, id, by, e) ==
  SpanSetStatus(SpanRecordException(sp, id, by, e), id, by, "ERROR", e)

\* catch (error) { span.recordException(error); span.setStatus(ERROR, error.message);
\*                 throw error } finally { span.end() }
WithSpanFailure(sp, id, by, e) ==
  SpanEnd(SpanSetStatus(SpanRecordException(sp, id, by, e), id, by, "ERROR", e), id, by)

\* return result
WithSpanResult(v) == [kind |-> "returned", val |-> v, err |-> NoError]

\* a variant that throws a new error carrying the message of the original
WithSpanThrown_Wrapped(e) ==
  [kind |-> "threw", val |-> "", err |-> [id |-> "wrapped", msg |-> e.msg]]

\* throw error
WithSpanThrown(e) == [kind |-> "threw", val |-> "", err |-> e]

FnReturn(c, v) ==
  /\ CanStep(c)
  /\ spans' = WithSpanSuccess(spans, ws[c].span, W(c))
  /\ ws' = [ws EXCEPT ![c].pc = "done",
                      ![c].fn = [kind |-> "returned", val |-> v, err |-> NoError],
                      ![c].outcome = WithSpanResult(v)]
  /\ syncStack' = PopSync(c)
  /\ UNCHANGED <<tracingEnabled, tracerProvider, ambient, metricsVars, ic, auxVars>>

FnThrow(c, e) ==
  /\ CanStep(c)
  /\ spans' = WithSpanFailure(spans, ws[c].span, W(c), e)
  /\ ws' = [ws EXCEPT ![c].pc = "done",
                      ![c].fn = [kind |-> "threw", val |-> "", err |-> e],
                      ![c].outcome = WithSpanThrown(e)]
  /\ syncStack' = PopSync(c)
  /\ UNCHANGED <<tracingEnabled, tracerProvider, ambient, metricsVars, ic, auxVars>>

(***************************************************************************)
(* MetricsService: the meter and the three name -> instrument maps.  An    *)
(* instrument is identified by its position in the sequence of instruments *)
(* the meter has handed out: every meter.create* call yields a new object. *)
(***************************************************************************)
Kinds == {"counter", "histogram", "gauge"}

CommonNames ==
  [counter   |-> {"http_requests_total", "errors_total", "business_events_total"},
   histogram |-> {"http_request_duration_seconds"},
   gauge     |-> {"active_connections"}]

\* the names the callers of create* use: one common name and one of their own
CallerNames ==
  [counter   |-> {"http_requests_total", "orders_total"},
   histogram |-> {"http_request_duration_seconds", "order_duration"},
   gauge     |-> {"active_connections", "queue_depth"}]

NoInstrument == 0

\* new Error('指标已禁用或测量器未初始化')
MeterDisabled == [id |-> "MeterDisabled", msg |-> <<"metrics", "disabled">>, stack |-> TRUE]

NewInstrument(kind, name, fault) ==
  [kind |-> kind, name |-> name, fault |-> fault, log |-> <<>>]

\* constructor: the meter is set unless config.metrics.enabled === false;
\* byName: the incrementCounter / recordHistogram calls the metrics
\* interceptor made on the service, in order, for each intercepted call
NewMetricsService(enabled) ==
  [meter |-> enabled,
   byName |-> <<>>,
   cache |-> [k \in Kinds |-> <<>>],
   instruments |-> <<>>,
   httpRequestsTotal |-> NoInstrument, httpRequestDuration |-> NoInstrument,
   activeConnections |-> NoInstrument, errorCounter |-> NoInstrument,
   businessMetrics |-> NoInstrument]

\* this.meter.create<Kind>(name, ...)
MeterCreate(m, kind, name, fault) ==
  [m EXCEPT !.instruments = Append(@, NewInstrument(kind, name, fault))]

\* this.<kind>s.set(name, instrument)
CacheSet(m, kind, name, id) ==
  [m EXCEPT !.cache[kind] = (name :> id) @@ @]

\* initializeCommonMetrics: five meter.create* calls, then five map.set calls
InitializeCommonMetrics(m) ==
  LET n  == Len(m.instruments)
      m1 == MeterCreate(m,  "counter",   "http_requests_total", NoFault)
      m2 == MeterCreate(m1, "histogram", "http_request_duration_seconds", NoFault)
      m3 == MeterCreate(m2, "gauge",     "active_connections", NoFault)
      m4 == MeterCreate(m3, "counter",   "errors_total", NoFault)
      m5 == MeterCreate(m4, "counter",   "business_events_total", NoFault)
      m6 == [m5 EXCEPT !.httpRequestsTotal = n + 1, !.httpRequestDuration = n + 2,
                       !.activeConnections = n + 3, !.errorCounter = n + 4,
                       !.businessMetrics = n + 5]
      c1 == CacheSet(m6, "counter", "http_requests_total", n + 1)
      c2 == CacheSet(c1, "counter", "errors_total", n + 4)
      c3 == CacheSet(c2, "counter", "business_events_total", n + 5)
      c4 == CacheSet(c3, "histogram", "http_request_duration_seconds", n + 2)
  IN  CacheSet(c4, "gauge", "active_connections", n + 3)

\* onModuleInit: if (!this.meter) return; this.initializeCommonMetrics()
ModuleInit(m) == IF ~m.meter THEN m ELSE InitializeCommonMetrics(m)

\* a variant that registers the instrument again although the name is cached
CreateInstrument_NoCacheCheck(m, kind, name, fault) ==
  IF ~m.meter
  THEN [m |-> m, ret |-> NoInstrument, created |-> FALSE, err |-> MeterDisabled]
  ELSE [m |-> CacheSet(MeterCreate(m, kind, name, fault), kind, name,
                       Len(m.instruments) + 1),
        ret |-> Len(m.instruments) + 1, created |-> TRUE, err |-> NoError]

\* a variant that does not look at the meter
CreateInstrument_NoMeterCheck(m, kind, name, fault) ==
  IF name \in DOMAIN m.cache[kind]
  THEN [m |-> m, ret |-> m.cache[kind][name], created |-> FALSE, err |-> NoError]
  ELSE [m |-> CacheSet(MeterCreate(m, kind, name, fault), kind, name,
                       Len(m.instruments) + 1),
        ret |-> Len(m.instruments) + 1, created |-> TRUE, err |-> NoError]

\* createCounter / createHistogram / createGauge(name, description, unit):
\* throws without a meter, returns the cached instrument if the name is known,
\* else creates one with the meter and caches it; what meter.create<Kind>
\* throws leaves the method before the map is written
CreateInstrument(m, kind, name, fault) ==
  IF ~m.meter
  THEN [m |-> m, ret |-> NoInstrument, created |-> FALSE, err |-> MeterDisabled]
  ELSE IF name \in DOMAIN m.cache[kind]
       THEN [m |-> m, ret |-> m.cache[kind][name], created |-> FALSE, err |-> NoError]
       ELSE IF fault.op = "create"
       THEN [m |-> m, ret |-> NoInstrument, created |-> FALSE, err |-> fault.err]
       ELSE [m |-> CacheSet(MeterCreate(m, kind, name, fault), kind, name,
                            Len(m.instruments) + 1),
             ret |-> Len(m.instruments) + 1, created |-> TRUE, err |-> NoError]

CreateCounter(m, name, fault) == CreateInstrument(m, "counter", name, fault)
CreateHistogram(m, name, fault) == CreateInstrument(m, "histogram", name, fault)
CreateGauge(m, name, fault) == CreateInstrument(m, "gauge", name, fault)

\* counter.add(value, attributes) / histogram.record(value, attributes): the
\* invocation is logged; err is what it throws
InstrumentThrows(m, id) ==
  m.instruments[id].fault.op =
    (IF m.instruments[id].kind = "counter" THEN "add" ELSE "record")

InstrumentRecord(m, id, entry) ==
  [m |-> [m EXCEPT !.instruments[id].log =
                     Append(@, [entry EXCEPT !.ok = ~InstrumentThrows(m, id)])],
   err |-> IF InstrumentThrows(m, id) THEN m.instruments[id].fault.err ELSE NoError]

\* a variant that creates the instrument when the name is not in the map,
\* as create* does
RecordByName_CreateUnknown(m, kind, name, entry) ==
  IF name \in DOMAIN m.cache[kind]
  THEN InstrumentRecord(m, m.cache[kind][name], entry)
  ELSE LET r == CreateInstrument(m, kind, name, NoFault)
       IN  IF r.err # NoError THEN [m |-> r.m, err |-> r.err]
           ELSE InstrumentRecord(r.m, r.ret, entry)

\* incrementCounter / recordHistogram / setGauge(name, value, attributes):
\* nothing if the name is not in the map
RecordByName(m, kind, name, entry) ==
  IF name \in DOMAIN m.cache[kind]
  THEN InstrumentRecord(m, m.cache[kind][name], entry)
  ELSE [m |-> m, err |-> NoError]

IncrementCounter(m, name, entry) == RecordByName(m, "counter", name, entry)
RecordHistogram(m, name, entry) == RecordByName(m, "histogram", name, entry)
SetGauge(m, name, entry) == RecordByName(m, "gauge", name, entry)

\* known: the name was in the map; err: what the call threw
NoRecord == [kind |-> "", name |-> "", known |-> FALSE, err |-> NoError]

\* the value and attributes a caller of the service passes
CallerEntry == [by |-> <<"caller", 0>>, value |-> 1, status |-> "", error |-> "", ok |-> TRUE]

\* ret: the instrument returned; created: the meter was asked for a new one
NoCreate == [kind |-> "", name |-> "", ret |-> NoInstrument, created |-> FALSE,
             err |-> NoError]

\* the framework, or a caller, runs onModuleInit()
OnModuleInit ==
  /\ Len(metrics.instruments) + 5 <= MaxInstruments
  /\ metrics' = ModuleInit(metrics)
  /\ lastCreate' = NoCreate
  /\ UNCHANGED <<tracingVars, lastRecord, ic, auxVars>>

CallCreate(kind, name, r) ==
  /\ Len(metrics.instruments) + 1 <= MaxInstruments
  /\ metrics' = r.m
  /\ lastCreate' = [kind |-> kind, name |-> name, ret |-> r.ret,
                    created |-> r.created, err |-> r.err]
  /\ UNCHANGED <<tracingVars, lastRecord, ic, auxVars>>

CallCreateCounter(name) == CallCreate("counter", name, CreateCounter(metrics, name, NoFault))
CallCreateHistogram(name) == CallCreate("histogram", name, CreateHistogram(metrics, name, NoFault))
CallCreateGauge(name) == CallCreate("gauge", name, CreateGauge(metrics, name, NoFault))

\* what was recorded for `by` on the instruments of a kind
RecordedBy(by, kind) ==
  UNION { { <<i, j>> : j \in {j \in DOMAIN metrics.instruments[i].log :
                                metrics.instruments[i].log[j].by = by} } :
          i \in {i \in DOMAIN metrics.instruments : metrics.instruments[i].kind = kind} }

\* a caller runs incrementCounter / recordHistogram / setGauge(name, 1)
CallRecord(kind, name, r) ==
  /\ name \in DOMAIN metrics.cache[kind] =>
       Cardinality(RecordedBy(CallerEntry.by, kind)) < MaxRecords
  /\ metrics' = r.m
  /\ lastRecord' = [kind |-> kind, name |-> name,
                    known |-> name \in DOMAIN metrics.cache[kind], err |-> r.err]
  /\ UNCHANGED <<tracingVars, lastCreate, ic, auxVars>>

CallIncrementCounter(name) == CallRecord("counter", name, IncrementCounter(metrics, name, CallerEntry))
CallRecordHistogram(name) == CallRecord("histogram", name, RecordHistogram(metrics, name, CallerEntry))
CallSetGauge(name) == CallRecord("gauge", name, SetGauge(metrics, name, CallerEntry))

(***************************************************************************)
(* The metrics adapter on its own.                                         *)
(***************************************************************************)
InitMetrics ==
  /\ tracingEnabled = TRUE
  /\ tracerProvider = TRUE
  /\ spans = <<>>
  /\ ambient = NoSpan
  /\ ws = [c \in WCalls |-> IdleWs]
  /\ syncStack = <<>>
  /\ \E enabled \in BOOLEAN : metrics = NewMetricsService(enabled)
  /\ lastCreate = NoCreate
  /\ lastRecord = NoRecord
  /\ ic = [c \in ICalls |-> IdleIc]
  /\ InitAux

NextMetrics ==
  \/ OnModuleInit
  \/ \E n \in CallerNames["counter"] : CallCreateCounter(n)
  \/ \E n \in CallerNames["histogram"] : CallCreateHistogram(n)
  \/ \E n \in CallerNames["gauge"] : CallCreateGauge(n)

SpecMetrics == InitMetrics /\ [][NextMetrics]_vars

(***************************************************************************)
(* The metrics adapter with callers that create and record by name.        *)
(***************************************************************************)
RecordNames ==
  [counter |-> {"orders_total", "errors_total", "never_created"},
   histogram |-> {"order_duration", "never_created"},
   gauge |-> {"queue_depth", "never_created"}]

NextRecord ==
  \/ OnModuleInit
  \/ CallCreateCounter("orders_total")
  \/ CallCreateHistogram("order_duration")
  \/ CallCreateGauge("queue_depth")
  \/ \E n \in RecordNames["counter"] : CallIncrementCounter(n)
  \/ \E n \in RecordNames["histogram"] : CallRecordHistogram(n)
  \/ \E n \in RecordNames["gauge"] : CallSetGauge(n)

SpecRecord == InitMetrics /\ [][NextRecord]_vars

(***************************************************************************)
(* Methods being decorated with the presets.                               *)
(***************************************************************************)
InitDecorators == InitMetrics

NextDecorators ==
  \E preset \in TracePresets \cup MetricsPresets, options \in CallerOptions :
    \E extra \in Extras(preset) : Decorate(preset, options, extra)

SpecDecorators == InitDecorators /\ [][NextDecorators]_vars

(***************************************************************************)
(* The configuration being made from the environment.                      *)
(***************************************************************************)
\* OTEL_TRACING_SAMPLE_RATE = rate, OTEL_METRICS_INTERVAL = interval;
\* createOpenTelemetryConfigFromEnv(), once when the application starts
LoadConfigFromEnv(rate, interval) ==
  /\ ~envConfig.loaded
  /\ envConfig' = [loaded |-> TRUE, rate |-> rate, interval |-> interval,
                   config |-> CreateOpenTelemetryConfigFromEnv(rate, interval)]
  /\ UNCHANGED <<tracingVars, metricsVars, ic, decorated, logger, otel>>

NextEnv == \E rate \in EnvValues, interval \in EnvValues : LoadConfigFromEnv(rate, interval)

SpecEnv == InitMetrics /\ [][NextEnv]_vars

(***************************************************************************)
(* OpenTelemetryService.onModuleInit and onModuleDestroy.  Both are async: *)
(* onModuleInit is suspended at `await this.createSampler()`, and          *)
(* onModuleDestroy at `await this.sdk.shutdown()`.                         *)
(***************************************************************************)
InitFailed == [id |-> "InitFailed", msg |-> <<"init", "failed">>, stack |-> TRUE]
ShutdownFailed == [id |-> "ShutdownFailed", msg |-> <<"shutdown", "failed">>, stack |-> TRUE]
ExporterFailed == [id |-> "ExporterFailed", msg |-> <<"exporter", "failed">>, stack |-> TRUE]

OtelLog(o, level, message, err) ==
  [o EXCEPT !.log = Append(@, [level |-> level, message |-> message, err |-> err.id])]

\* onModuleInit's catch: logger.error(..., error.stack); throw error
InitCatch(o) == [OtelLog(o, "error", "init failed", InitFailed) EXCEPT !.init = "failed"]

\* onModuleInit until createSampler is awaited: the logger's context is set
\* to 'OpenTelemetryService' and the exporters are made
\* (this.prometheusExporter only if metrics are enabled); `fails`: a
\* constructor throws
OtelInitBegin(metricsEnabled, fails) ==
  /\ otel.init = "idle"
  /\ logger' = SetContext(logger, "OpenTelemetryService", "OpenTelemetryService")
  /\ otel' = IF fails THEN InitCatch(otel)
             ELSE [otel EXCEPT !.init = "sampler", !.prometheus = metricsEnabled]
  /\ UNCHANGED <<tracingVars, metricsVars, ic, decorated, envConfig>>

\* onModuleInit after createSampler's import: the sampler is made, then
\* this.sdk = new NodeSDK(..); this.sdk.start();
\* fault: what throws, "" for nothing
OtelInitFinish(fault) ==
  /\ otel.init = "sampler"
  /\ LET o == [otel EXCEPT !.sampler = CreateSampler(ConfigSampleRate(envConfig))]
     IN  otel' = CASE fault = "" -> OtelLog([o EXCEPT !.sdk = "started", !.init = "done"],
                                            "info", "init ok", NoError)
                   [] fault = "sdk" -> InitCatch(o)
                   [] fault = "start" -> InitCatch([o EXCEPT !.sdk = "created"])
  /\ UNCHANGED <<tracingVars, metricsVars, ic, decorated, logger, envConfig>>

\* a variant whose catch block throws the error again
DestroyCatch_Rethrow(o, n, err) ==
  [OtelLog(o, "error", "shutdown failed", err) EXCEPT !.destroys[n].pc = "rejected"]

\* catch (error) { this.logger.error('...', error.stack) }
DestroyCatch(o, n, err) ==
  [OtelLog(o, "error", "shutdown failed", err) EXCEPT !.destroys[n].pc = "resolved"]

\* if (this.prometheusExporter) { this.prometheusExporter.shutdown(); logger.info(..) }
\* err: what prometheusExporter.shutdown() throws
DestroyPrometheus(o, n, err) ==
  IF ~o.prometheus THEN [o EXCEPT !.destroys[n].pc = "resolved"]
  ELSE LET p == [o EXCEPT !.prometheusShutdowns = @ + 1]
       IN  IF err # NoError THEN DestroyCatch(p, n, err)
           ELSE [OtelLog(p, "info", "prometheus shutdown ok", NoError)
                   EXCEPT !.destroys[n].pc = "resolved"]

\* isInitialized(): return !!this.sdk
IsInitialized(o) == o.sdk # "none"

\* if (this.sdk)
HasSdk(o) == o.sdk # "none"

\* onModuleDestroy until sdk.shutdown() is awaited, or until its end when
\* there is no SDK; sdkErr: what the shutdown promise will reject with
OtelDestroyBegin(sdkErr, promErr) ==
  /\ Len(otel.destroys) < MaxDestroyCalls
  /\ LET n == Len(otel.destroys) + 1
         call == [pc |-> "shutdown", hadSdk |-> otel.sdk # "none", askedSdk |-> HasSdk(otel),
                  sdkErr |-> sdkErr, promErr |-> promErr]
         o == [otel EXCEPT !.destroys = Append(@, call)]
     IN  otel' = IF HasSdk(otel)
                 THEN [o EXCEPT !.sdkShutdowns = @ + 1]
                 ELSE DestroyPrometheus([o EXCEPT !.destroys[n].sdkErr = NoError], n, promErr)
  /\ UNCHANGED <<tracingVars, metricsVars, ic, decorated, logger, envConfig>>

\* the promise of sdk.shutdown() settles and onModuleDestroy runs to its end
OtelDestroyFinish(n) ==
  /\ n \in DOMAIN otel.destroys
  /\ otel.destroys[n].pc = "shutdown"
  /\ otel' = IF otel.destroys[n].sdkErr # NoError
             THEN DestroyCatch(otel, n, otel.destroys[n].sdkErr)
             ELSE DestroyPrometheus(OtelLog(otel, "info", "sdk shutdown ok", NoError), n,
                                    otel.destroys[n].promErr)
  /\ UNCHANGED <<tracingVars, metricsVars, ic, decorated, logger, envConfig>>

NextOtel ==
  \/ \E m \in BOOLEAN, f \in BOOLEAN : OtelInitBegin(m, f)
  \/ \E fault \in {"", "sdk", "start"} : OtelInitFinish(fault)
  \/ \E e \in {NoError, ShutdownFailed}, p \in {NoError, ExporterFailed} : OtelDestroyBegin(e, p)
  \/ \E n \in 1..MaxDestroyCalls : OtelDestroyFinish(n)

SpecOtel == InitMetrics /\ [][NextOtel]_vars

(***************************************************************************)
(* The bootstrap service started with the configuration read from the     *)
(* environment, or with one that names no sample rate.                     *)
(***************************************************************************)
NextBootstrap ==
  \/ \E rate \in EnvValues : otel.init = "idle" /\ LoadConfigFromEnv(rate, Unset)
  \/ \E m \in BOOLEAN, f \in BOOLEAN : OtelInitBegin(m, f)
  \/ \E fault \in {"", "sdk", "start"} : OtelInitFinish(fault)

SpecBootstrap == InitMetrics /\ [][NextBootstrap]_vars

(***************************************************************************)
(* The tracing adapter on its own.                                         *)
(***************************************************************************)
InitSpan ==
  /\ tracingEnabled \in BOOLEAN
  /\ \E a \in BOOLEAN :
       /\ spans = IF a THEN <<NewSpan(<<"ambient", 0>>, TRUE, NoFault)>> ELSE <<>>
       /\ ambient = IF a THEN 1 ELSE NoSpan
       /\ tracerProvider \in IF a THEN {TRUE} ELSE BOOLEAN
  /\ ws = [c \in WCalls |-> IdleWs]
  /\ syncStack = <<>>
  /\ metrics = NewMetricsService(TRUE)
  /\ lastCreate = NoCreate
  /\ lastRecord = NoRecord
  /\ ic = [c \in ICalls |-> IdleIc]
  /\ InitAux

NextSpan ==
  \/ \E c \in WCalls, sync \in BOOLEAN, p \in {0} \cup WCalls : WithSpanStart(c, sync, p)
  \/ \E c \in WCalls, v \in Values : FnReturn(c, v)
  \/ \E c \in WCalls, e \in BusinessErrors : FnThrow(c, e)

SpecSpan == InitSpan /\ [][NextSpan]_vars

(***************************************************************************)
(* EnhancedWinstonLoggerService.error, called outside every withSpan call  *)
(* or inside the fn of one.                                                *)
(***************************************************************************)
LoggedMessages == { <<"payment", "failed">> }

L(n) == <<"logger", n>>

\* a variant that marks the span of the enclosing context or, failing that,
\* the span created last
LoggerMarkSpan_Latest(sp, active, by, message) ==
  LET id == IF active # NoSpan THEN active ELSE Len(sp)
      e == [id |-> "LoggerError", msg |-> message, stack |-> TRUE]
  IN  IF id = 0 THEN sp
      ELSE SpanSetStatus(SpanRecordException(sp, id, by, e), id, by, "ERROR", e)

\* const activeSpan = trace.getActiveSpan(); if (activeSpan) {
\*   activeSpan.recordException(new Error(message));
\*   activeSpan.setStatus({ code: ERROR, message }) }
LoggerMarkSpan(sp, active, by, message) ==
  LET e == [id |-> "LoggerError", msg |-> message, stack |-> TRUE]
  IN  IF active # NoSpan
      THEN SpanSetStatus(SpanRecordException(sp, active, by, e), active, by, "ERROR", e)
      ELSE sp

\* context || this.contextName
OrContextName(lg, context) == IF context = "" THEN lg.contextName ELSE context

\* logger.error(message, traceStack, context) called in the context of p
\* (0: outside every call)
LoggerError(p, message, traceStack, context) ==
  /\ Len(logger.calls) < MaxLoggerCalls
  /\ p \in OpenParents
  /\ spans' = LoggerMarkSpan(spans, ActiveFor(p), L(Len(logger.calls) + 1), message)
  /\ logger' = [logger EXCEPT
                  !.calls = Append(@, p),
                  !.records = Append(@, [level |-> "error", message |-> message,
                                         context |-> OrContextName(logger, context),
                                         stack |-> traceStack, by |-> L(Len(logger.calls) + 1)])]
  /\ UNCHANGED <<tracingEnabled, tracerProvider, ambient, ws, syncStack, metricsVars, ic, decorated, envConfig, otel>>

NextLogger ==
  \/ NextSpan
  \/ \E p \in {0} \cup WCalls, m \in LoggedMessages, st \in {"", "at f"}, ctx \in {"", "Orders"} :
       LoggerError(p, m, st, ctx)

SpecLogger == InitSpan /\ [][NextLogger]_vars

(***************************************************************************)
(* Components that share the logger: each sets its context once it is      *)
(* constructed and logs later, and the bootstrap service sets the context  *)
(* in onModuleInit.                                                        *)
(***************************************************************************)
\* a component calls logger.setContext(<its own name>)
LoggerSetContext(comp) ==
  /\ logger' = SetContext(logger, comp, comp)
  /\ UNCHANGED <<tracingVars, metricsVars, ic, decorated, envConfig, otel>>

\* a component calls logger.info(message, context) ("": no context argument)
LoggerInfo(comp, message, context) ==
  /\ Len(logger.records) < MaxLogRecords
  /\ logger' = [logger EXCEPT
                  !.records = Append(@, [level |-> "info", message |-> message,
                                         context |-> OrContextName(logger, context),
                                         stack |-> "", by |-> <<comp, 0>>])]
  /\ UNCHANGED <<tracingVars, metricsVars, ic, decorated, envConfig, otel>>

NextLoggerContext ==
  \/ \E comp \in Components \ {"OpenTelemetryService"} : LoggerSetContext(comp)
  \/ \E comp \in Components, m \in LoggedMessages, ctx \in {"", "HTTP"} : LoggerInfo(comp, m, ctx)
  \/ \E m \in BOOLEAN, f \in BOOLEAN : OtelInitBegin(m, f)
  \/ \E fault \in {"", "sdk", "start"} : OtelInitFinish(fault)

SpecLoggerContext == InitMetrics /\ [][NextLoggerContext]_vars

(***************************************************************************)
(* The interceptors.  intercept() returns next.handle() itself or          *)
(*   next.handle().pipe(tap(..), catchError(..), finalize(..))  (tracing)  *)
(*   next.handle().pipe(tap(..), catchError(..))                (metrics)  *)
(* The rxjs operators: an error thrown by the tap callback is sent down    *)
(* the pipe as an error notification and reaches catchError; an error      *)
(* thrown by the catchError selector is the error the subscriber gets; the *)
(* finalize callback runs once when the subscription ends, whether by      *)
(* complete, by error or by unsubscribe, after the subscriber was told.    *)
(***************************************************************************)
Undefined == "undefined"
EmitValues == {"done", Undefined}

\* the error a failing handler produces
HandlerErrors == { [id |-> "E1", msg |-> <<"boom">>, stack |-> TRUE] }

\* errors a span or instrument method throws; the first words of the message
\* are free, the interceptors search the message for a marker
SetAttributeFailed == [id |-> "T_setAttribute", msg |-> <<"span", "setAttribute", "failed">>, stack |-> TRUE]
SetStatusFailed == [id |-> "T_setStatus", msg |-> <<"span", "setStatus", "failed">>, stack |-> TRUE]
EndFailed == [id |-> "T_end", msg |-> <<"span", "end", "failed">>, stack |-> TRUE]
AddFailed == [id |-> "T_add", msg |-> <<"Counter", "add", "failed">>, stack |-> TRUE]
RecordFailed == [id |-> "T_record", msg |-> <<"Histogram", "record", "failed">>, stack |-> TRUE]
CreateFailed == [id |-> "T_create", msg |-> <<"Counter", "already", "exists">>, stack |-> TRUE]
Unexpected == [id |-> "T_unexpected", msg |-> <<"unexpected">>, stack |-> TRUE]

Fault(op, err) == [op |-> op, err |-> err]

SpanFaults ==
  { NoFault,
    Fault("setAttribute", SetAttributeFailed), Fault("setAttribute", Unexpected),
    Fault("setStatus", SetStatusFailed), Fault("setStatus", Unexpected),
    Fault("recordException", Unexpected),
    Fault("end", EndFailed), Fault("end", Unexpected) }

InstrumentFaults ==
  { NoFault,
    Fault("add", AddFailed), Fault("add", Unexpected),
    Fault("record", RecordFailed), Fault("record", Unexpected),
    Fault("create", CreateFailed) }

TraceMeta(kind, recordResult) ==
  [present |-> TRUE, kind |-> kind, recordResult |-> recordResult,
   counter |-> "", histogram |-> "", recordStatus |-> FALSE]

MetricsMeta(counter, histogram, recordStatus) ==
  [present |-> TRUE, kind |-> "", recordResult |-> FALSE,
   counter |-> counter, histogram |-> histogram, recordStatus |-> recordStatus]

Ev(type, val, err) == [type |-> type, val |-> val, err |-> err]

(***************************************************************************)
(* TracingInterceptor: the callbacks of tap, catchError and finalize.      *)
(* Each returns the spans after it and the error it throws (NoError: none).*)
(***************************************************************************)
\* try { span.setAttribute(key, ..) } catch (error) {
\*   if (error.message && error.message.includes('setAttribute failed')) throw error }
TapSetAttribute(r, id, by, key) ==
  IF r.err # NoError THEN r
  ELSE [sp |-> SpanSetAttribute(r.sp, id, by, key),
        err |-> IF /\ SpanThrows(r.sp, id, "setAttribute")
                   /\ Includes(r.sp[id].fault.err.msg, <<"setAttribute", "failed">>)
                THEN r.sp[id].fault.err ELSE NoError]

\* try { span.setStatus({ code: OK }) } catch (error) {
\*   if (error.message && error.message.includes('setStatus failed')) throw error }
TapSetStatus(r, id, by) ==
  IF r.err # NoError THEN r
  ELSE [sp |-> SpanSetStatus(r.sp, id, by, "OK", NoError),
        err |-> IF /\ SpanThrows(r.sp, id, "setStatus")
                   /\ Includes(r.sp[id].fault.err.msg, <<"setStatus", "failed">>)
                THEN r.sp[id].fault.err ELSE NoError]

\* a variant whose tap callback ends the span as soon as a value arrived,
\* while the stream is still open
TraceTap_EndsSpan(sp, id, by, meta, response, v) ==
  LET r1 == TapSetAttribute([sp |-> sp, err |-> NoError], id, by, "operation.duration_ms")
      r2 == IF meta.recordResult /\ v # Undefined
            THEN TapSetAttribute(r1, id, by, "result") ELSE r1
      r3 == IF meta.kind = "SERVER" /\ response
            THEN TapSetAttribute(r2, id, by, "http.status_code") ELSE r2
      r4 == TapSetStatus(r3, id, by)
  IN  IF r4.err # NoError THEN r4 ELSE [sp |-> SpanEnd(r4.sp, id, by), err |-> NoError]

\* tap((result) => { ... })
TraceTap(sp, id, by, meta, response, v) ==
  LET r1 == TapSetAttribute([sp |-> sp, err |-> NoError], id, by, "operation.duration_ms")
      r2 == IF meta.recordResult /\ v # Undefined
            THEN TapSetAttribute(r1, id, by, "result") ELSE r1
      r3 == IF meta.kind = "SERVER" /\ response
            THEN TapSetAttribute(r2, id, by, "http.status_code") ELSE r2
  IN  TapSetStatus(r3, id, by)

\* one statement of catchError's try block: skipped once a statement threw
TryOp(r, id, op, after) ==
  IF r.err # NoError THEN r
  ELSE [sp |-> after, err |-> IF SpanThrows(r.sp, id, op) THEN r.sp[id].fault.err ELSE NoError]

\* a variant whose catch block swallows every span error
CatchRethrows_Never(spanError) == FALSE

\* catch (spanError) { if (spanError.message && (spanError.message.includes(
\*   'setAttribute failed') || spanError.message.includes('setStatus failed'))) throw spanError }
CatchRethrows(spanError) ==
  /\ spanError # NoError
  /\ \/ Includes(spanError.msg, <<"setAttribute", "failed">>)
     \/ Includes(spanError.msg, <<"setStatus", "failed">>)

\* catchError((error) => { try { ... } catch (spanError) { ... } throw error })
TraceCatch(sp, id, by, meta, response, error) ==
  LET r0 == [sp |-> sp, err |-> NoError]
      r1 == TryOp(r0, id, "setAttribute", SpanSetAttribute(r0.sp, id, by, "operation.duration_ms"))
      r2 == TryOp(r1, id, "setAttribute", SpanSetAttribute(r1.sp, id, by, "error.name"))
      r3 == TryOp(r2, id, "setAttribute", SpanSetAttribute(r2.sp, id, by, "error.message"))
      r4 == IF error.stack
            THEN TryOp(r3, id, "setAttribute", SpanSetAttribute(r3.sp, id, by, "error.stack"))
            ELSE r3
      r5 == IF meta.kind = "SERVER" /\ response
            THEN TryOp(r4, id, "setAttribute", SpanSetAttribute(r4.sp, id, by, "http.status_code"))
            ELSE r4
      r6 == TryOp(r5, id, "recordException", SpanRecordException(r5.sp, id, by, error))
      r7 == TryOp(r6, id, "setStatus", SpanSetStatus(r6.sp, id, by, "ERROR", error))
  IN  [sp |-> r7.sp, err |-> IF CatchRethrows(r7.err) THEN r7.err ELSE error]

\* a variant without the finalize operator: the span is ended where the
\* outcome is observed, so never on unsubscribe
TraceFinalize_OnOutcomeOnly(sp, id, by, cancelled) ==
  IF cancelled THEN [sp |-> sp, err |-> NoError]
  ELSE [sp |-> SpanEnd(sp, id, by),
        err |-> IF SpanThrows(sp, id, "end") /\ Includes(sp[id].fault.err.msg, <<"end", "failed">>)
                THEN sp[id].fault.err ELSE NoError]

\* finalize(() => { try { span.end() } catch (error) {
\*   if (error.message && error.message.includes('end failed')) throw error } })
TraceFinalize(sp, id, by, cancelled) ==
  [sp |-> SpanEnd(sp, id, by),
   err |-> IF SpanThrows(sp, id, "end") /\ Includes(sp[id].fault.err.msg, <<"end", "failed">>)
           THEN sp[id].fault.err ELSE NoError]

(***************************************************************************)
(* MetricsInterceptor: the callbacks of tap and catchError.  Each returns  *)
(* the metrics service after it and the error it throws.                   *)
(***************************************************************************)
Durations == {1500}

MetricEntry(by, value, status, error) ==
  [by |-> by, value |-> value, status |-> status, error |-> error.id, ok |-> TRUE]

\* the interceptor calls incrementCounter / recordHistogram(name, value, attributes)
ByNameCall(kind, name, entry) == [kind |-> kind, name |-> name, entry |-> entry]

\* the by-name calls made for the intercepted call `by`
ByNameOf(m, by) == IF by \in DOMAIN m.byName THEN m.byName[by] ELSE <<>>

CallByName(m, kind, name, entry) ==
  LET f == RecordByName(m, kind, name, entry)
      made == Append(ByNameOf(m, entry.by), ByNameCall(kind, name, entry))
  IN  [m |-> [f.m EXCEPT !.byName = (entry.by :> made) @@ @], err |-> f.err]

\* a variant whose catch block does nothing with an error that lacks the marker
RecordOrFallback_NoFallback(m, kind, name, fault, entry, marker) ==
  IF name = "" THEN [m |-> m, err |-> NoError]
  ELSE LET r == CreateInstrument(m, kind, name, fault)
           a == IF r.err # NoError THEN [m |-> r.m, err |-> r.err]
                ELSE InstrumentRecord(r.m, r.ret, entry)
       IN  IF a.err = NoError THEN a
           ELSE IF Includes(a.err.msg, marker) THEN a
           ELSE [m |-> a.m, err |-> NoError]

\* a variant without the try/catch around create and add/record
RecordOrFallback_NoCatch(m, kind, name, fault, entry, marker) ==
  IF name = "" THEN [m |-> m, err |-> NoError]
  ELSE LET r == CreateInstrument(m, kind, name, fault)
       IN  IF r.err # NoError THEN [m |-> r.m, err |-> r.err]
           ELSE InstrumentRecord(r.m, r.ret, entry)

\* try { instrument = metricsService.create<Kind>(name, ..); instrument.add/record(..) }
\* catch (error) { if (error.message && error.message.includes(marker)) throw error;
\*                 metricsService.incrementCounter/recordHistogram(name, ..) }
RecordOrFallback(m, kind, name, fault, entry, marker) ==
  IF name = "" THEN [m |-> m, err |-> NoError]
  ELSE LET r == CreateInstrument(m, kind, name, fault)
           a == IF r.err # NoError THEN [m |-> r.m, err |-> r.err]
                ELSE InstrumentRecord(r.m, r.ret, entry)
       IN  IF a.err = NoError THEN a
           ELSE IF Includes(a.err.msg, marker) THEN a
           ELSE CallByName(a.m, kind, name, entry)

\* tap((_result) => { ... })
MetricsTap(m, by, meta, response, duration, fault) ==
  LET status == IF meta.recordStatus THEN "success" ELSE ""
      c == RecordOrFallback(m, "counter", meta.counter, fault,
                            MetricEntry(by, 1, status, NoError), <<"add", "failed">>)
  IN  IF c.err # NoError THEN c
      ELSE RecordOrFallback(c.m, "histogram", meta.histogram, fault,
                            MetricEntry(by, duration, status, NoError), <<"record", "failed">>)

\* catchError((error) => { ...; throw error })
MetricsCatch(m, by, meta, response, duration, fault, error) ==
  LET status == IF meta.recordStatus THEN "error" ELSE ""
      c == RecordOrFallback(m, "counter", meta.counter, fault,
                            MetricEntry(by, 1, status, error), <<"add", "failed">>)
      h == IF c.err # NoError THEN c
           ELSE RecordOrFallback(c.m, "histogram", meta.histogram, fault,
                                 MetricEntry(by, duration, status, error), <<"record", "failed">>)
  IN  [m |-> h.m, err |-> IF h.err # NoError THEN h.err ELSE error]

(***************************************************************************)
(* The pipeline of one intercepted call.  Pipe* give the state after the   *)
(* notification went through the operators: spans, metrics, what the       *)
(* subscriber receives (out) and what is thrown outside the stream.        *)
(***************************************************************************)
PipeResult(sp, m, out, leaked) == [sp |-> sp, m |-> m, out |-> out, leaked |-> leaked]

Leak(err) == IF err = NoError THEN <<>> ELSE <<err>>

\* the source emitted error `e` (or a tap callback threw it)
PipeError(c, sp, m, e, duration) ==
  IF c.passThrough THEN PipeResult(sp, m, <<Ev("error", "", e)>>, <<>>)
  ELSE IF c.by = "trace"
  THEN LET g == TraceCatch(sp, c.span, c.id, c.meta, c.response, e)
           f == TraceFinalize(g.sp, c.span, c.id, FALSE)
       IN  PipeResult(f.sp, m, <<Ev("error", "", g.err)>>, Leak(f.err))
  ELSE LET g == MetricsCatch(m, c.id, c.meta, c.response, duration, c.fault, e)
       IN  PipeResult(sp, g.m, <<Ev("error", "", g.err)>>, <<>>)

\* the source emitted value `v`
PipeNext(c, sp, m, v, duration) ==
  IF c.passThrough THEN PipeResult(sp, m, <<Ev("next", v, NoError)>>, <<>>)
  ELSE IF c.by = "trace"
  THEN LET t == TraceTap(sp, c.span, c.id, c.meta, c.response, v)
       IN  IF t.err = NoError
           THEN PipeResult(t.sp, m, <<Ev("next", v, NoError)>>, <<>>)
           ELSE PipeError(c, t.sp, m, t.err, duration)
  ELSE LET t == MetricsTap(m, c.id, c.meta, c.response, duration, c.fault)
       IN  IF t.err = NoError
           THEN PipeResult(sp, t.m, <<Ev("next", v, NoError)>>, <<>>)
           ELSE PipeError(c, sp, t.m, t.err, duration)

\* the source completed
PipeComplete(c, sp, m) ==
  IF c.passThrough \/ c.by # "trace"
  THEN PipeResult(sp, m, <<Ev("complete", "", NoError)>>, <<>>)
  ELSE LET f == TraceFinalize(sp, c.span, c.id, FALSE)
       IN  PipeResult(f.sp, m, <<Ev("complete", "", NoError)>>, Leak(f.err))

\* the subscriber unsubscribed
PipeUnsubscribe(c, sp, m) ==
  IF c.passThrough \/ c.by # "trace"
  THEN PipeResult(sp, m, <<>>, <<>>)
  ELSE LET f == TraceFinalize(sp, c.span, c.id, TRUE)
       IN  PipeResult(f.sp, m, <<>>, Leak(f.err))

\* the stream the subscriber sees has ended
Ended(out) == out # <<>> /\ out[Len(out)].type \in {"error", "complete"}

(***************************************************************************)
(* intercept(context, next)                                                *)
(***************************************************************************)
\* a variant that only looks at the metadata
PassThrough_MetadataOnly(reflector, meta) == ~meta.present

\* a variant that only looks at the reflector
PassThrough_ReflectorOnly(reflector, meta) == ~reflector

\* if (!this.reflector) return next.handle()
\* if (!metadata) return next.handle()
PassThrough(reflector, meta) == ~reflector \/ ~meta.present

\* TracingInterceptor.intercept up to the return of the observable
TraceIntercept(c, reflector, meta, response, fault) ==
  /\ ic[c].pc = "idle"
  /\ \A d \in DOMAIN ic : d < c => ic[d].pc # "idle"
  /\ IF PassThrough(reflector, meta)
     THEN /\ ic' = [ic EXCEPT ![c] = [@ EXCEPT !.pc = "returned", !.by = "trace",
                                               !.reflector = reflector, !.meta = meta,
                                               !.passThrough = TRUE]]
          /\ spans' = spans
     ELSE LET r == StartSpan(spans, tracingEnabled, tracerProvider, ambient, I(c), fault)
          IN /\ spans' = r.spans
             /\ ic' = [ic EXCEPT ![c] = [@ EXCEPT !.pc = "returned", !.by = "trace",
                                                  !.reflector = reflector, !.meta = meta,
                                                  !.response = response, !.span = r.id,
                                                  !.fault = fault]]
  /\ UNCHANGED <<tracingEnabled, tracerProvider, ambient, ws, syncStack, metricsVars, auxVars>>

\* MetricsInterceptor.intercept up to the return of the observable
MetricsIntercept(c, reflector, meta, response, fault) ==
  /\ ic[c].pc = "idle"
  /\ \A d \in DOMAIN ic : d < c => ic[d].pc # "idle"
  /\ ic' = [ic EXCEPT ![c] = [@ EXCEPT !.pc = "returned", !.by = "metrics",
                                       !.reflector = reflector, !.meta = meta,
                                       !.response = response, !.fault = fault,
                                       !.passThrough = PassThrough(reflector, meta)]]
  /\ UNCHANGED <<tracingVars, metricsVars, auxVars>>

\* the caller subscribes to the observable intercept() returned
Subscribe(c) ==
  /\ ic[c].pc = "returned"
  /\ ic' = [ic EXCEPT ![c].pc = "subscribed"]
  /\ UNCHANGED <<tracingVars, metricsVars, auxVars>>

\* the call as the callbacks see it: its fields and its identity
CallView(c) == ic[c] @@ [id |-> I(c)]

Deliver(c, event, r) ==
  /\ spans' = r.sp
  /\ metrics' = r.m
  /\ ic' = [ic EXCEPT ![c].hin = IF event = <<>> THEN @ ELSE @ \o event,
                      ![c].out = @ \o r.out,
                      ![c].leaked = @ \o r.leaked,
                      ![c].pc = IF event = <<>> \/ Ended(r.out) \/ Ended(event)
                                THEN "done" ELSE @]
  /\ UNCHANGED <<tracingEnabled, tracerProvider, ambient, ws, syncStack, lastCreate, lastRecord, auxVars>>

Emitted(c) == Cardinality({i \in DOMAIN ic[c].hin : ic[c].hin[i].type = "next"})

\* the handler's stream emits a value
HandlerNext(c, v, duration) ==
  /\ ic[c].pc = "subscribed"
  /\ Emitted(c) < MaxEmit
  /\ Len(metrics.instruments) + 2 <= MaxInstruments
  /\ Deliver(c, <<Ev("next", v, NoError)>>, PipeNext(CallView(c), spans, metrics, v, duration))

\* the handler's stream completes
HandlerComplete(c) ==
  /\ ic[c].pc = "subscribed"
  /\ Deliver(c, <<Ev("complete", "", NoError)>>, PipeComplete(CallView(c), spans, metrics))

\* the handler's stream fails
HandlerError(c, e, duration) ==
  /\ ic[c].pc = "subscribed"
  /\ Len(metrics.instruments) + 2 <= MaxInstruments
  /\ Deliver(c, <<Ev("error", "", e)>>, PipeError(CallView(c), spans, metrics, e, duration))

\* the subscriber unsubscribes before the stream ended
Unsubscribe(c) ==
  /\ ic[c].pc = "subscribed"
  /\ Deliver(c, <<>>, PipeUnsubscribe(CallView(c), spans, metrics))

(***************************************************************************)
(* The interceptors in front of handlers, after the module was set up.     *)
(***************************************************************************)
TraceMetas == {NoMeta, TraceMeta("INTERNAL", FALSE), TraceMeta("SERVER", TRUE)}

MetricsMetas ==
  {NoMeta, MetricsMeta("orders_total", "", FALSE), MetricsMeta("", "order_duration", FALSE),
   MetricsMeta("orders_total", "order_duration", TRUE)}

InitIntercept ==
  /\ tracingEnabled \in BOOLEAN
  /\ \E a \in BOOLEAN :
       /\ spans = IF a THEN <<NewSpan(<<"ambient", 0>>, TRUE, NoFault)>> ELSE <<>>
       /\ ambient = IF a THEN 1 ELSE NoSpan
       /\ tracerProvider \in IF a THEN {TRUE} ELSE BOOLEAN
  /\ ws = [c \in WCalls |-> IdleWs]
  /\ syncStack = <<>>
  /\ \E enabled \in BOOLEAN : metrics = ModuleInit(NewMetricsService(enabled))
  /\ lastCreate = NoCreate
  /\ lastRecord = NoRecord
  /\ ic = [c \in ICalls |-> IdleIc]
  /\ InitAux

NextIntercept ==
  \/ \E c \in ICalls, reflector \in BOOLEAN, meta \in TraceMetas, fault \in SpanFaults :
       /\ (fault # NoFault \/ ~reflector => meta = TraceMeta("SERVER", TRUE))
       /\ (fault # NoFault => reflector)
       /\ TraceIntercept(c, reflector, meta, meta.kind = "SERVER", fault)
  \/ \E c \in ICalls, reflector \in BOOLEAN, meta \in MetricsMetas, fault \in InstrumentFaults :
       /\ (fault # NoFault \/ ~reflector => meta = MetricsMeta("orders_total", "order_duration", TRUE))
       /\ (fault # NoFault => reflector)
       /\ MetricsIntercept(c, reflector, meta, TRUE, fault)
  \/ \E c \in ICalls : Subscribe(c)
  \/ \E c \in ICalls, v \in EmitValues, d \in Durations : HandlerNext(c, v, d)
  \/ \E c \in ICalls : HandlerComplete(c)
  \/ \E c \in ICalls, e \in HandlerErrors, d \in Durations : HandlerError(c, e, d)
  \/ \E c \in ICalls : Unsubscribe(c)

SpecIntercept == InitIntercept /\ [][NextIntercept]_vars

(***************************************************************************)
(* The HTTP duration histogram: handlers decorated with MetricsHttp behind *)
(* the metrics interceptor, and callers of recordHttpRequestDuration.      *)
(* Elapsed times are milliseconds (differences of Date.now()).             *)
(***************************************************************************)
\* elapsed times callers pass; whole seconds, so that duration / 1000 is an
\* integer
HttpDurations == {2000}

\* recordHttpRequestDuration(duration, method, route, statusCode):
\* if (this.httpRequestDuration) this.httpRequestDuration.record(duration / 1000, ..)
RecordHttpRequestDuration(m, duration) ==
  IF m.httpRequestDuration = NoInstrument THEN [m |-> m, err |-> NoError]
  ELSE InstrumentRecord(m, m.httpRequestDuration,
                        [CallerEntry EXCEPT !.value = duration \div 1000])

CallRecordHttpRequestDuration(duration) ==
  CallRecord("histogram", "http_request_duration_seconds",
             RecordHttpRequestDuration(metrics, duration))

\* reflector.get(METRICS_METADATA_KEY, handler): what the interceptor reads
\* of the metadata the decorator stored
MetaOf(metadata) ==
  MetricsMeta(metadata["counter"], metadata["histogram"], metadata["recordStatus"])

\* options passed to MetricsHttp: none, or a histogram name of the caller's own
HttpOptions == {EmptyObject, "histogram" :> "checkout_duration"}

NextHttp ==
  \/ \E c \in ICalls, o \in HttpOptions :
       MetricsIntercept(c, TRUE, MetaOf(MetricsPreset("MetricsHttp", o, NoExtra)), TRUE, NoFault)
  \/ \E c \in ICalls : Subscribe(c)
  \/ \E c \in ICalls, v \in EmitValues, d \in Durations : HandlerNext(c, v, d)
  \/ \E c \in ICalls : HandlerComplete(c)
  \/ \E c \in ICalls, e \in HandlerErrors, d \in Durations : HandlerError(c, e, d)
  \/ \E c \in ICalls : Unsubscribe(c)
  \/ \E d \in HttpDurations : CallRecordHttpRequestDuration(d)

SpecHttp == InitIntercept /\ [][NextHttp]_vars

(***************************************************************************)
(* Traced calls in flight at the same time, made from the same context:    *)
(* every call of intercept() sees the same active span.                    *)
(***************************************************************************)
CCalls == 1..MaxConcurrentCalls

InitConcurrent ==
  /\ tracingEnabled \in BOOLEAN
  /\ \E a \in BOOLEAN :
       /\ spans = IF a THEN <<NewSpan(<<"ambient", 0>>, TRUE, NoFault)>> ELSE <<>>
       /\ ambient = IF a THEN 1 ELSE NoSpan
       /\ tracerProvider \in IF a THEN {TRUE} ELSE BOOLEAN
  /\ ws = [c \in WCalls |-> IdleWs]
  /\ syncStack = <<>>
  /\ metrics = ModuleInit(NewMetricsService(TRUE))
  /\ lastCreate = NoCreate
  /\ lastRecord = NoRecord
  /\ ic = [c \in CCalls |-> IdleIc]
  /\ InitAux

NextConcurrent ==
  \/ \E c \in CCalls, meta \in TraceMetas \ {NoMeta} :
       TraceIntercept(c, TRUE, meta, meta.kind = "SERVER", NoFault)
  \/ \E c \in CCalls : Subscribe(c)
  \/ \E c \in CCalls, v \in EmitValues, d \in Durations : HandlerNext(c, v, d)
  \/ \E c \in CCalls : HandlerComplete(c)
  \/ \E c \in CCalls, e \in HandlerErrors, d \in Durations : HandlerError(c, e, d)
  \/ \E c \in CCalls : Unsubscribe(c)

SpecConcurrent == InitConcurrent /\ [][NextConcurrent]_vars

(***************************************************************************)
(* Properties of withSpan / withSpanSync.                                  *)
(***************************************************************************)
\* the methods `by` invoked on span id, in order
LogBy(sp, id, by) == SelectSeq(sp[id].log, LAMBDA e : e.by = by)

EndCount(log) == Cardinality({i \in DOMAIN log : log[i].op = "end"})

\* the span of call c was started for c by the service's tracer; without a
\* tracer startSpan hands the span that is active to the call, and the span
\* of a call to the calls made inside its fn
OwnSpan(c) ==
  /\ tracingEnabled
  /\ spans[ws[c].span].owner = W(c)
  /\ spans[ws[c].span].recording

\* C1: every call of withSpan or withSpanSync ends its span exactly once, on
\* the path where fn returns and on the path where fn throws: the call
\* invokes end() once, not before fn is over, and a span the tracer started
\* for the call is ended by nobody else.
C1_EndedExactlyOnce ==
  \A c \in WCalls :
    /\ ws[c].pc = "done" =>
         /\ EndCount(LogBy(spans, ws[c].span, W(c))) = 1
         /\ OwnSpan(c) => EndCount(spans[ws[c].span].log) = 1 /\ spans[ws[c].span].ended
    /\ ws[c].pc = "fn" =>
         /\ EndCount(LogBy(spans, ws[c].span, W(c))) = 0
         /\ OwnSpan(c) => EndCount(spans[ws[c].span].log) = 0 /\ ~spans[ws[c].span].ended

\* an asynchronous call whose fn returned and a synchronous call whose fn threw
C1_Witness ==
  \E c, d \in WCalls :
    /\ ws[c].pc = "done" /\ ~ws[c].sync /\ ws[c].fn.kind = "returned" /\ OwnSpan(c)
    /\ ws[d].pc = "done" /\ ws[d].sync /\ ws[d].fn.kind = "threw" /\ OwnSpan(d)

\* C2: when fn throws, the call records that exception on the span, then sets
\* the span's status to ERROR with the exception's message, then ends the
\* span, and the caller receives the very error object fn threw.
C2_FailureRecordedAndRethrown ==
  \A c \in WCalls :
    (ws[c].pc = "done" /\ ws[c].fn.kind = "threw") =>
      /\ ws[c].outcome = [kind |-> "threw", val |-> "", err |-> ws[c].fn.err]
      /\ LogBy(spans, ws[c].span, W(c)) =
           << LogEntry("recordException", W(c), "", ws[c].fn.err),
              LogEntry("setStatus", W(c), "ERROR", ws[c].fn.err),
              LogEntry("end", W(c), "", NoError) >>
      /\ OwnSpan(c) => /\ spans[ws[c].span].status = "ERROR"
                       /\ spans[ws[c].span].statusMsg = ws[c].fn.err.msg

\* fn threw the second of two errors that carry the same message
C2_Witness ==
  \E c \in WCalls :
    /\ ws[c].pc = "done" /\ ws[c].fn.kind = "threw" /\ ws[c].fn.err.id = "E2"
    /\ OwnSpan(c) /\ spans[ws[c].span].status = "ERROR"

\* C3: when fn succeeds the caller receives fn's result, the call sets the
\* status OK and then ends the span, and sets no status after that; on a span
\* the tracer started for the call no status is set by anybody once it ended.
C3_OkBeforeEnd ==
  \A c \in WCalls :
    (ws[c].pc = "done" /\ ws[c].fn.kind = "returned") =>
      /\ ws[c].outcome = ws[c].fn
      /\ LogBy(spans, ws[c].span, W(c)) =
           << LogEntry("setStatus", W(c), "OK", NoError),
              LogEntry("end", W(c), "", NoError) >>
      /\ OwnSpan(c) =>
           /\ spans[ws[c].span].status = "OK"
           /\ \A i, j \in DOMAIN spans[ws[c].span].log :
                (spans[ws[c].span].log[i].op = "end" /\ i < j)
                  => spans[ws[c].span].log[j].op # "setStatus"

(***************************************************************************)
(* Properties of the MetricsService caches.                                *)
(***************************************************************************)
\* the instruments the meter has handed out for a name
Registered(kind, name) ==
  {i \in DOMAIN metrics.instruments :
     metrics.instruments[i].kind = kind /\ metrics.instruments[i].name = name}

\* C7: each metric name maps to exactly one instrument for the adapter's
\* lifetime: the meter has handed out exactly one instrument for every cached
\* name, and that one is the cached entry (so no entry was ever replaced and
\* no name was registered twice).
C7_OneInstrumentPerName ==
  \A k \in Kinds :
    /\ \A n \in DOMAIN metrics.cache[k] : Registered(k, n) = {metrics.cache[k][n]}
    /\ \A i \in DOMAIN metrics.instruments :
         metrics.instruments[i].kind = k => metrics.instruments[i].name \in DOMAIN metrics.cache[k]

\* C8: createCounter (createHistogram, createGauge) is idempotent: a call
\* returns the instrument that the cache holds for the name afterwards; a
\* call for a name the cache already holds returns that cached instrument and
\* asks the meter for nothing; a call for a new name asks the meter once; and
\* a call that repeats the previous call returns the same instrument again.
C8_CreateIdempotent ==
  [][\A k \in Kinds : \A n \in CallerNames[k] :
       (metrics.meter /\ CallCreate(k, n, CreateInstrument(metrics, k, n, NoFault))) =>
          /\ lastCreate'.err = NoError
          /\ n \in DOMAIN metrics'.cache[k]
          /\ lastCreate'.ret = metrics'.cache[k][n]
          /\ n \in DOMAIN metrics.cache[k] =>
               /\ lastCreate'.ret = metrics.cache[k][n]
               /\ ~lastCreate'.created
               /\ metrics'.instruments = metrics.instruments
          /\ n \notin DOMAIN metrics.cache[k] =>
               /\ lastCreate'.created
               /\ Len(metrics'.instruments) = Len(metrics.instruments) + 1
          /\ (lastCreate.kind = k /\ lastCreate.name = n) =>
               /\ lastCreate'.ret = lastCreate.ret
               /\ metrics'.instruments = metrics.instruments
    ]_vars

\* a second createCounter call for a caller's own name: served from the cache
C8_Witness ==
  /\ lastCreate.kind = "counter" /\ lastCreate.name = "orders_total"
  /\ lastCreate.ret # NoInstrument /\ ~lastCreate.created
  /\ Cardinality(Registered("counter", "orders_total")) = 1

C3_Witness ==
  \E c \in WCalls :
    /\ ws[c].pc = "done" /\ ws[c].fn.kind = "returned" /\ ws[c].fn.val = "done"
    /\ ~ws[c].sync /\ OwnSpan(c) /\ spans[ws[c].span].status = "OK"

(***************************************************************************)
(* Properties of the interceptors.                                         *)
(***************************************************************************)
\* the spans the tracer started for `owner`
SpansOf(owner) == {i \in DOMAIN spans : spans[i].owner = owner}

Traced(c) == ic[c].pc # "idle" /\ ic[c].by = "trace" /\ ~ic[c].passThrough
Measured(c) == ic[c].pc # "idle" /\ ic[c].by = "metrics" /\ ~ic[c].passThrough
Cancelled(c) == ic[c].pc = "done" /\ ~Ended(ic[c].hin)
Failing(c) == ic[c].pc = "done" /\ Ended(ic[c].hin) /\ ic[c].hin[Len(ic[c].hin)].type = "error"

C5_SameErrorDelivered ==
  \A c \in ICalls : (Traced(c) \/ Measured(c)) /\ Failing(c) =>
    /\ Ended(ic[c].out)
    /\ ic[c].out[Len(ic[c].out)] = ic[c].hin[Len(ic[c].hin)]

C9_TelemetryFailureInvisible ==
  \A c \in ICalls : (Traced(c) \/ Measured(c)) /\ ic[c].pc = "done" /\ Ended(ic[c].hin) =>
    /\ ic[c].out = ic[c].hin
    /\ ic[c].leaked = <<>>

\* C10: when the subscriber unsubscribes before the handler emitted or
\* completed, the counter increment and the histogram record the metadata
\* configures have each been made exactly once for the call.
C10_CancelledStillRecorded ==
  \A c \in ICalls : Measured(c) /\ Cancelled(c) /\ ic[c].hin = <<>> /\ metrics.meter =>
    /\ ic[c].meta.counter # "" => Cardinality(RecordedBy(I(c), "counter")) = 1
    /\ ic[c].meta.histogram # "" => Cardinality(RecordedBy(I(c), "histogram")) = 1

\* C11: two traced calls in flight use different spans, and every operation
\* made on the span a call uses (attributes, status, end) was made by that
\* call: no step of one call touches the span of the other.
C11_SpansIndependent ==
  \A c, d \in DOMAIN ic : Traced(c) /\ Traced(d) /\ c # d =>
    /\ ic[c].span # ic[d].span
    /\ \A i \in DOMAIN spans[ic[c].span].log : spans[ic[c].span].log[i].by = I(c)

\* C12: when metrics are disabled in the configuration the meter is never
\* initialized, and every call of createCounter, createHistogram or
\* createGauge throws: it returns no instrument, asks the meter for nothing
\* and leaves the caches empty.
C12_CreateThrowsWhenDisabled ==
  ~metrics.meter =>
    /\ lastCreate.kind # "" =>
         /\ lastCreate.err = MeterDisabled
         /\ lastCreate.ret = NoInstrument
         /\ ~lastCreate.created
    /\ metrics.instruments = <<>>
    /\ \A k \in Kinds : DOMAIN metrics.cache[k] = {}

\* createGauge was called on a service whose metrics are disabled
C12_Witness ==
  /\ ~metrics.meter
  /\ lastCreate.kind = "gauge"
  /\ lastCreate.err = MeterDisabled

\* C13: a call of incrementCounter, recordHistogram or setGauge with a name
\* that is not in the service's map does not throw and changes nothing: no
\* instrument is invoked, none is created and no cache entry appears.
C13_UnknownNameNoEffect ==
  [][\A k \in Kinds : \A n \in RecordNames[k] :
       (/\ CallRecord(k, n, RecordByName(metrics, k, n, CallerEntry))
        /\ n \notin DOMAIN metrics.cache[k])
       => /\ metrics' = metrics
          /\ lastRecord'.err = NoError
          /\ ~lastRecord'.known]_vars

\* setGauge('never_created', 1) on a service with metrics enabled, after
\* another instrument was created and used
C13_Witness ==
  /\ metrics.meter
  /\ lastRecord = [kind |-> "gauge", name |-> "never_created", known |-> FALSE, err |-> NoError]
  /\ RecordedBy(CallerEntry.by, "counter") # {}
  /\ "never_created" \notin DOMAIN metrics.cache["gauge"]

\* C14: with tracing disabled startSpan never returns undefined or null; it
\* returns the active span if there is one, and otherwise a new no-op span:
\* one that records nothing.
C14_DisabledStartSpanFallback ==
  \A c \in WCalls : ws[c].pc # "idle" /\ ~tracingEnabled =>
    /\ ws[c].span # NoSpan
    /\ ActiveFor(ws[c].parent) # NoSpan => ws[c].span = ActiveFor(ws[c].parent)
    /\ ActiveFor(ws[c].parent) = NoSpan =>
         /\ spans[ws[c].span].owner = W(c)
         /\ ~spans[ws[c].span].recording

\* C15: the attributes a preset decorator stores are the key-by-key merge of
\* the preset's attributes with the caller's: every key of either is stored,
\* with the caller's value where the caller gave the key and the preset's
\* value otherwise.
C15_PresetAttributesMerged ==
  decorated.preset # "" =>
    LET own == PresetAttributes(decorated.preset, decorated.extra)
        given == AttributesOf(decorated.options)
        stored == decorated.metadata["attributes"]
    IN  /\ DOMAIN stored = DOMAIN own \cup DOMAIN given
        /\ \A k \in DOMAIN stored :
             stored[k] = IF k \in DOMAIN given THEN given[k] ELSE own[k]

\* C16: an interceptor that has no Reflector returns the handler's stream as
\* it is, whatever metadata the handler carries: the subscriber sees exactly
\* the handler's notifications, no span is obtained or started and nothing is
\* recorded for the call; while only such calls were made no span and no
\* instrument was created or used.
C16_NoReflectorPassThrough ==
  /\ \A c \in ICalls : ic[c].pc # "idle" /\ ~ic[c].reflector =>
       /\ ic[c].passThrough
       /\ ic[c].out = ic[c].hin
       /\ ic[c].leaked = <<>>
       /\ ic[c].span = NoSpan
       /\ SpansOf(I(c)) = {}
       /\ \A k \in Kinds : RecordedBy(I(c), k) = {}
  /\ (\A c \in ICalls : ic[c].pc # "idle" => ~ic[c].reflector) =>
       /\ \A i \in DOMAIN spans : spans[i].owner = <<"ambient", 0>> /\ spans[i].log = <<>>
       /\ Len(metrics.instruments) = IF metrics.meter THEN 5 ELSE 0
       /\ \A i \in DOMAIN metrics.instruments : metrics.instruments[i].log = <<>>

\* a metrics interceptor without Reflector in front of a handler that carries
\* metrics metadata and fails
C16_Witness ==
  \E c \in ICalls :
    /\ ic[c].pc = "done" /\ ~ic[c].reflector /\ ic[c].meta.present
    /\ ic[c].by = "metrics" /\ metrics.meter
    /\ Failing(c)
    /\ ic[c].out = ic[c].hin

\* C17: every call of logger.error hands winston exactly one record, of level
\* error; if a span is active where it is called the call records an
\* exception on that span and then sets its status to ERROR with the message,
\* and touches no other span; if none is active it touches no span.
C17_LoggerErrorMarksActiveSpan ==
  /\ Len(logger.records) = Len(logger.calls)
  /\ \A n \in DOMAIN logger.calls :
       LET active == ActiveFor(logger.calls[n])
       IN  /\ logger.records[n].level = "error"
           /\ logger.records[n].by = L(n)
           /\ \A id \in DOMAIN spans :
                LET own == LogBy(spans, id, L(n))
                IN  IF id = active
                    THEN /\ Len(own) = 2
                         /\ own[1].op = "recordException"
                         /\ own[1].msg = logger.records[n].message
                         /\ own[2].op = "setStatus" /\ own[2].code = "ERROR"
                         /\ own[2].msg = logger.records[n].message
                    ELSE own = <<>>

\* error() called inside the fn of a withSpan call whose span records, and the
\* span has the status ERROR with the logged message
C17_Witness ==
  \E n \in DOMAIN logger.calls :
    /\ logger.calls[n] # 0
    /\ LET id == ws[logger.calls[n]].span
       IN /\ spans[id].recording
          /\ Len(LogBy(spans, id, L(n))) = 2
          /\ ws[logger.calls[n]].pc = "fn"
          /\ spans[id].status = "ERROR"
          /\ spans[id].statusMsg = logger.records[n].message

\* the two numbers are equal
NumEq(a, b) == ~a.nan /\ ~b.nan /\ a.num * b.den = b.num * a.den

\* the variable is set to a string that holds no digit
NonNumeric(v) == v.set /\ \A i \in DOMAIN v.val : v.val[i] \notin Digits

\* C18: when OTEL_TRACING_SAMPLE_RATE holds a non-numeric value the sample
\* rate of the configuration is the default 1.0, and when
\* OTEL_METRICS_INTERVAL holds a non-numeric value the interval is the
\* default 30000.
C18_MalformedFallsBackToDefault ==
  envConfig.loaded =>
    /\ NonNumeric(envConfig.rate) => NumEq(envConfig.config.sampleRate, DefaultSampleRate)
    /\ NonNumeric(envConfig.interval) =>
         NumEq(envConfig.config.interval, Number(DefaultInterval, 1))

\* C19: no call of onModuleDestroy rejects; when the SDK's shutdown fails, or
\* the exporter's, the call logs that error and resolves; a call made while
\* no SDK was created does not ask for an SDK shutdown, and the SDK is asked
\* to shut down once per call made while there is one.
C19_DestroyNeverRejects ==
  /\ \A n \in DOMAIN otel.destroys :
       LET call == otel.destroys[n]
       IN  /\ call.pc \in {"shutdown", "resolved"}
           /\ call.askedSdk = call.hadSdk
           /\ call.pc = "resolved" /\ call.sdkErr # NoError =>
                \E i \in DOMAIN otel.log :
                  otel.log[i].level = "error" /\ otel.log[i].err = call.sdkErr.id
  /\ otel.sdkShutdowns = Cardinality({n \in DOMAIN otel.destroys : otel.destroys[n].hadSdk})

\* one call made before any SDK existed, and one whose SDK shutdown failed
C19_Witness ==
  \E a, b \in DOMAIN otel.destroys :
    /\ ~otel.destroys[a].hadSdk /\ otel.destroys[a].pc = "resolved"
    /\ otel.destroys[b].hadSdk /\ otel.destroys[b].pc = "resolved"
    /\ otel.destroys[b].sdkErr = ShutdownFailed
    /\ otel.sdkShutdowns = 1

\* C20: withSpan, withSpanSync and the tracing interceptor end and set the
\* status of no span but the one started for their own call: every end() and
\* setStatus() they make is on a span started for the calling call, and the
\* span that was active before the calls is neither ended nor given a status.
C20_OnlyOwnSpanFinalized ==
  /\ \A id \in DOMAIN spans : \A i \in DOMAIN spans[id].log :
       LET e == spans[id].log[i]
       IN  e.op \in {"end", "setStatus"} /\ e.by[1] \in {"w", "i"} => spans[id].owner = e.by
  /\ ambient # NoSpan => ~spans[ambient].ended /\ spans[ambient].status = "UNSET"

\* the number of end() invocations call c has made on the span it holds
OwnEnds(sp, calls, c) ==
  IF calls[c].span = NoSpan THEN 0 ELSE EndCount(LogBy(sp, calls[c].span, I(c)))

\* C21: within one call that carries trace metadata the span is started
\* before the handler is invoked (when the subscriber subscribes the call
\* holds its span and has not ended it), and the call ends the span only in
\* the step in which the handler's value, completion or error, or the
\* unsubscription, reaches the interceptor and closes the stream: never at
\* intercept(), at subscription, or while the stream stays open.
C21_StartBeforeHandlerEndAfterOutcome ==
  [][\A c \in ICalls :
       /\ (ic[c].pc = "returned" /\ ic'[c].pc = "subscribed" /\ Traced(c)) =>
            /\ ic[c].span # NoSpan /\ ic[c].span \in DOMAIN spans
            /\ ic'[c].span = ic[c].span
            /\ ic[c].hin = <<>>
            /\ OwnEnds(spans', ic', c) = 0
       /\ (Traced(c)' /\ OwnEnds(spans', ic', c) > OwnEnds(spans, ic, c)) =>
            /\ ic[c].pc = "subscribed"
            /\ ic'[c].pc = "done"
            /\ \/ Len(ic'[c].hin) = Len(ic[c].hin) + 1
               \/ Cancelled(c)'
    ]_vars

\* a traced call whose handler emitted a value and completed: the span the
\* tracer started for it is ended, after both notifications went through
C21_Witness ==
  \E c \in ICalls :
    /\ Traced(c) /\ ic[c].pc = "done" /\ tracingEnabled
    /\ Len(ic[c].hin) = 2 /\ ic[c].hin[1].type = "next" /\ ic[c].hin[2].type = "complete"
    /\ ic[c].out = ic[c].hin
    /\ SpansOf(I(c)) = {ic[c].span}
    /\ spans[ic[c].span].ended
    /\ OwnEnds(spans, ic, c) = 1

\* the handler of call c failed: its stream sent an error notification
HandlerFailed(c) == \E i \in DOMAIN ic[c].hin : ic[c].hin[i].type = "error"

\* what call c has put on its span that marks the call as failed
SpanErrorMarks(c) ==
  {i \in DOMAIN spans[ic[c].span].log :
     LET e == spans[ic[c].span].log[i]
     IN  /\ e.by = I(c)
         /\ spans[ic[c].span].fault.op # e.op
         /\ \/ e.op = "setStatus" /\ e.code = "ERROR"
            \/ e.op = "recordException"
            \/ e.op = "setAttribute" /\ e.code \in {"error.name", "error.message", "error.stack"}}

\* the measurements call c has made with status 'error' or an error_type
MetricErrorMarks(c) ==
  {p \in RecordedBy(I(c), "counter") \cup RecordedBy(I(c), "histogram") :
     LET e == metrics.instruments[p[1]].log[p[2]]
     IN  e.ok /\ (e.status = "error" \/ e.error # "")}

\* C22: a call is recorded as failed only if its handler failed: the span of
\* a traced call carries the status ERROR, a recorded exception or error.*
\* attributes set by the call, and an instrument carries a measurement of the
\* call with status 'error' or an error_type, only when the handler's stream
\* sent an error.
C22_ErrorOnlyIfHandlerFailed ==
  \A c \in ICalls :
    /\ (Traced(c) /\ SpanErrorMarks(c) # {}) => HandlerFailed(c)
    /\ (Measured(c) /\ MetricErrorMarks(c) # {}) => HandlerFailed(c)

\* the additions call c has made to a counter (those that did not throw)
CounterAdds(c) ==
  {p \in RecordedBy(I(c), "counter") : metrics.instruments[p[1]].log[p[2]].ok}

\* the handler's stream so far is a single value, with or without the
\* completion after it, or a failure without a value before it
SingleOutcome(c) ==
  /\ Len(ic[c].hin) <= 2
  /\ \A i \in DOMAIN ic[c].hin : ic[c].hin[i].type = "error" => i = 1

\* C23: for a subscribed call with a configured counter whose handler emits
\* a single value or fails, the metrics interceptor adds to the counter at
\* most once.
C23_CounterAddedAtMostOnce ==
  \A c \in ICalls :
    (Measured(c) /\ ic[c].meta.counter # "" /\ SingleOutcome(c)) =>
      Cardinality(CounterAdds(c)) <= 1

\* create<Kind>(name) throws when call c makes it on the service m
CreateFails(m, c, kind, name) ==
  name # "" /\ CreateInstrument(m, kind, name, ic[c].fault).err # NoError

\* the counter part of the callback leaves without throwing: no counter is
\* configured, its creation fails and the by-name call finds nothing, or the
\* counter it gets accepts the addition
CounterPartReturns(m, c) ==
  \/ ic[c].meta.counter = ""
  \/ CreateFails(m, c, "counter", ic[c].meta.counter)
  \/ ~InstrumentThrows(m, CreateInstrument(m, "counter", ic[c].meta.counter, ic[c].fault).ret)

\* the by-name call the callback makes for notification ev in place of a
\* direct add / record: the same name, value and attributes
FallbackCall(c, kind, ev, duration) ==
  ByNameCall(kind, ic[c].meta[kind],
             MetricEntry(I(c), IF kind = "counter" THEN 1 ELSE duration,
                         IF ~ic[c].meta.recordStatus THEN ""
                         ELSE IF ev.type = "next" THEN "success" ELSE "error",
                         ev.err))

\* C24: when createCounter (createHistogram) throws while the interceptor
\* handles a value or an error of a measured call, the interceptor calls
\* incrementCounter (recordHistogram) with the configured name and the value
\* and attributes of the direct path, counter first; and when every create
\* call of the step throws, the subscriber receives the handler's
\* notification as it is and nothing is thrown outside the stream.
C24_CreateFailureFallsBack ==
  [][\A c \in ICalls :
       (/\ Measured(c)
        /\ Len(ic'[c].hin) = Len(ic[c].hin) + 1
        /\ ic'[c].hin[Len(ic'[c].hin)].type \in {"next", "error"}) =>
       LET ev == ic'[c].hin[Len(ic'[c].hin)]
           calls == SubSeq(ByNameOf(metrics', I(c)), Len(ByNameOf(metrics, I(c))) + 1,
                           Len(ByNameOf(metrics', I(c))))
           cf == CreateFails(metrics, c, "counter", ic[c].meta.counter)
           hf == /\ CreateFails(metrics, c, "histogram", ic[c].meta.histogram)
                 /\ CounterPartReturns(metrics, c)
       IN  \E d \in Durations :
             /\ cf => /\ calls # <<>>
                      /\ calls[1] = FallbackCall(c, "counter", ev, d)
             /\ hf => /\ calls # <<>>
                      /\ calls[Len(calls)] = FallbackCall(c, "histogram", ev, d)
                      /\ Len(calls) = IF cf THEN 2 ELSE 1
             /\ ((cf \/ hf) /\ (ic[c].meta.counter = "" \/ cf) /\ (ic[c].meta.histogram = "" \/ hf)) =>
                  /\ ic'[c].out = Append(ic[c].out, ev)
                  /\ ic'[c].leaked = ic[c].leaked
    ]_vars

\* the meter's create methods throw for a call with a counter and a
\* histogram whose handler emitted a value and completed
C24_Witness ==
  \E c \in ICalls :
    /\ Measured(c) /\ metrics.meter /\ ic[c].fault.op = "create" /\ ic[c].pc = "done"
    /\ Len(ic[c].hin) = 2 /\ ic[c].hin[1].type = "next" /\ ic[c].hin[2].type = "complete"
    /\ ic[c].out = ic[c].hin
    /\ Len(ByNameOf(metrics, I(c))) = 2
    /\ ByNameOf(metrics, I(c))[1].kind = "counter"
    /\ ByNameOf(metrics, I(c))[2].kind = "histogram"

\* C25: with metrics disabled a call that carries metrics metadata delivers
\* the handler's value, completion or error as it is and records nothing:
\* the service holds no instrument, so none is created or used, and the
\* error createCounter / createHistogram throws never reaches the
\* subscriber, inside or outside the stream.
C25_DisabledMetricsInvisible ==
  \A c \in ICalls : (Measured(c) /\ ~metrics.meter) =>
    /\ ic[c].out = ic[c].hin
    /\ ic[c].leaked = <<>>
    /\ \A i \in DOMAIN ic[c].out : ic[c].out[i].err # MeterDisabled
    /\ metrics.instruments = <<>>
    /\ \A k \in Kinds : DOMAIN metrics.cache[k] = {} /\ RecordedBy(I(c), k) = {}

\* metrics disabled, a counter and a histogram configured, the handler failed:
\* the subscriber got the handler's error and both by-name calls found nothing
C25_Witness ==
  \E c \in ICalls :
    /\ Measured(c) /\ ~metrics.meter /\ ic[c].pc = "done"
    /\ ic[c].meta.counter # "" /\ ic[c].meta.histogram # ""
    /\ Len(ic[c].hin) = 1 /\ ic[c].hin[1].type = "error"
    /\ ic[c].out = ic[c].hin
    /\ Len(ByNameOf(metrics, I(c))) = 2
    /\ metrics.instruments = <<>>

\* C26: a record logged without a context argument carries the context name
\* the logging component itself set last through setContext, whatever
\* setContext calls other holders of the logger made in between.
C26_ContextOfSameCaller ==
  [][\A comp \in Components : \A m \in LoggedMessages :
       (LoggerInfo(comp, m, "") /\ logger.lastSet[comp] # "") =>
          logger'.records[Len(logger'.records)].context = logger.lastSet[comp]
    ]_vars

\* C27: isInitialized() returns true once onModuleInit has initialized the
\* SDK successfully, and false as long as the service has not been
\* initialized successfully: before onModuleInit, while it runs, and after it
\* failed.
C27_InitializedIffInitSucceeded ==
  /\ otel.init = "done" => IsInitialized(otel)
  /\ otel.init # "done" => ~IsInitialized(otel)

\* C28: a call of onModuleDestroy that runs to its end while the service
\* holds a Prometheus exporter has called shutdown() on that exporter, also
\* when the shutdown of the SDK failed.
C28_ExporterShutDownOnDestroy ==
  [][\A n \in 1..MaxDestroyCalls :
       (/\ n \in DOMAIN otel'.destroys
        /\ otel'.destroys[n].pc = "resolved"
        /\ (n \in DOMAIN otel.destroys => otel.destroys[n].pc # "resolved")
        /\ otel.prometheus)
       => otel'.prometheusShutdowns = otel.prometheusShutdowns + 1
    ]_vars

\* C29: the sampler is constructed with exactly the sample rate the
\* configuration holds, whatever number that is, and with 1.0 only when the
\* configuration holds no sample rate.
C29_SamplerGetsConfiguredRate ==
  otel.sampler.made =>
    LET rate == ConfigSampleRate(envConfig)
    IN  /\ (rate.set /\ ~rate.val.nan) => NumEq(otel.sampler.rate, rate.val)
        /\ ~rate.set => NumEq(otel.sampler.rate, DefaultSampleRate)

\* C30: every value recorded into the histogram named
\* http_request_duration_seconds is the elapsed time in seconds, i.e. a
\* thousandth of the elapsed milliseconds of the request it is about, for
\* records made by recordHttpRequestDuration and for records made by the
\* metrics interceptor for a MetricsHttp handler.
C30_HttpDurationInSeconds ==
  \A i \in DOMAIN metrics.instruments :
    metrics.instruments[i].name = "http_request_duration_seconds" =>
      \A j \in DOMAIN metrics.instruments[i].log :
        metrics.instruments[i].log[j].ok =>
          metrics.instruments[i].log[j].value * 1000 \in Durations \cup HttpDurations
====
